---- MODULE Spec2Model ----
(***************************************************************************)
(* Model of the task tracker HTTP service of server.js: the in-memory      *)
(* store (users, tasks, taskId) and the six request handlers.  The two     *)
(* async handlers (register, login) are split at their await; every other  *)
(* handler is one synchronous step.                                        *)
(***************************************************************************)
EXTENDS Integers, Sequences, FiniteSets, TLC

\* ------------------------------------------------------------- bounds
MaxReqs == 4        \* requests accepted in one run
MaxPending == 2     \* requests suspended at an await at the same time
MaxTasks == 2       \* tasks created in one run (caps taskId)

\* ------------------------------------------------------------- inputs
Absent == "<undefined>"          \* a field missing from the body or query
NA == "-"                        \* filler of a record field an operation has not
\* body.username: a string, or missing (=== compares undefined like any value)
Usernames == {"alice", Absent}
Plain == {"pw1", "pw2"}
Passwords == Plain \cup {Absent}
Texts == {"buy milk", "walk dog"}
Salts == {"saltA"}                \* the salts bcrypt draws in a run
ValidStatuses == {"backlog", "inProgress", "done", "onAccess"}
StatusInputs == ValidStatuses \cup {"archived", Absent}
Digits == {"1", "2", "3"}
\* path ids as the characters of the URL segment: "1", "2", "x", "2x"
PathIds == {<<"1">>, <<"2">>, <<"x">>, <<"2", "x">>}

\* ------------------------------------------------------------- bcryptjs
IsString(v) == v # Absent

\* bcrypt.hash(password, 8) with the salt it drew: a string that encodes the
\* cost, the salt and a digest of (salt, password).
BcryptHash(p, salt) ==
    CASE salt = "saltA" /\ p = "pw1" -> "$2a$08$saltA.Xq1"
      [] salt = "saltA" /\ p = "pw2" -> "$2a$08$saltA.Rk7"
      [] salt = "saltB" /\ p = "pw1" -> "$2a$08$saltB.m3Z"
      [] salt = "saltB" /\ p = "pw2" -> "$2a$08$saltB.9cT"

Hashes == {BcryptHash(p, s) : p \in Plain, s \in Salts}

SaltOf(h) == CHOOSE s \in Salts : \E p \in Plain : BcryptHash(p, s) = h

\* bcrypt.compare(password, hash): rehash with the salt stored in the hash.
BcryptCompare(p, h) == BcryptHash(p, SaltOf(h)) = h

\* ------------------------------------------------------------- helpers
NaN == -1

DigitVal(c) == CASE c = "1" -> 1 [] c = "2" -> 2 [] c = "3" -> 3

RECURSIVE ParseDigits(_, _, _)
ParseDigits(s, i, acc) ==
    IF i > Len(s) \/ s[i] \notin Digits THEN acc
    ELSE ParseDigits(s, i + 1, acc * 10 + DigitVal(s[i]))

ParseIntOrOne(s) == IF s[1] \in Digits THEN ParseDigits(s, 1, 0) ELSE 1

\* parseInt(id): the leading digits, NaN when there are none.
ParseInt(s) == IF s[1] \in Digits THEN ParseDigits(s, 1, 0) ELSE NaN

\* a === b on numbers: NaN equals nothing, itself included.
StrictEq(a, b) == a # NaN /\ b # NaN /\ a = b

\* users.find(user => user.username === username): index of the first, 0 if none
FindUser(us, u) ==
    IF \E i \in 1..Len(us) : us[i].username = u
    THEN CHOOSE i \in 1..Len(us) :
             us[i].username = u /\ \A j \in 1..(i - 1) : us[j].username # u
    ELSE 0

\* tasks.find(task => task.id === parseInt(id))
FindTask(ts, n) ==
    IF \E i \in 1..Len(ts) : StrictEq(ts[i].id, n)
    THEN CHOOSE i \in 1..Len(ts) :
             StrictEq(ts[i].id, n) /\ \A j \in 1..(i - 1) : ~StrictEq(ts[j].id, n)
    ELSE 0

Remove(s, i) == SubSeq(s, 1, i - 1) \o SubSeq(s, i + 1, Len(s))

\* ------------------------------------------------------------- state
VARIABLES
    users,      \* let users = []   : <<[username, password]>>
    tasks,      \* let tasks = []   : <<[id, username, task, status]>>
    taskId,     \* let taskId = 1
    pending,    \* handlers suspended at their await, in arrival order
    last,       \* the request that finished last, with its response
    nreq,       \* requests accepted so far
    assigned,   \* history: the ids given to created tasks, in creation order
    deleted,    \* history: the ids whose DELETE answered 200
    acked       \* history: the <<username, password>> whose register answered 201

vars == <<users, tasks, taskId, pending, last, nreq, assigned, deleted, acked>>

Store == [users |-> users, tasks |-> tasks, taskId |-> taskId]

NoResponse == 0      \* the handler's promise rejected before any res.send

Req(op, u, p, t, id, st) ==
    [op |-> op, username |-> u, password |-> p, task |-> t, id |-> id, status |-> st]

\* a handler suspended at its await: its request, the hash login read from the
\* user it found, whether (login) a register had answered 201 for its username
\* and password when it arrived, and whether (register) a register for its
\* username that was in flight together with it has answered 201 meanwhile
Suspended(r, hash, known) ==
    [req |-> r, hash |-> hash, known |-> known, raced |-> FALSE]

\* a finished request: what it answered, and the store and the history its last
\* synchronous segment ran on
Done(r, code, body, known, raced) ==
    [req |-> r, resp |-> code, body |-> body, pre |-> Store, gone |-> deleted,
     known |-> known, raced |-> raced]

\* a handler that never suspends
Sync(r, code, body) == Done(r, code, body, FALSE, FALSE)

Init ==
    /\ users = <<>>
    /\ tasks = <<>>
    /\ taskId = 1
    /\ pending = <<>>
    /\ nreq = 0
    /\ assigned = <<>>
    /\ deleted = {}
    /\ acked = {}
    /\ last = Sync(Req("none", NA, NA, NA, <<>>, NA), NoResponse, NA)

Accept == nreq < MaxReqs /\ nreq' = nreq + 1

\* the rejected promise of an async handler: no statement of the handler answers.
\* Express 4 leaves the request without a response, Express 5 answers 500.
Thrown(e) ==
    \E code \in {NoResponse, 500} :
        last' = Done(e.req, code, "Illegal arguments", e.known, e.raced)

\* ------------------------------------------------------------- POST /register
\* lines 114-115: the handler runs up to `await bcrypt.hash(password, 8)`
RegisterStart(u, p) ==
    /\ Accept
    /\ Len(pending) < MaxPending
    /\ pending' = Append(pending, Suspended(Req("register", u, p, NA, <<>>, NA), NA, FALSE))
    /\ UNCHANGED <<users, tasks, taskId, last, assigned, deleted, acked>>

\* line 117: users.find(user => user.username === username)
DuplicateUserLastOnly(us, u) == us # <<>> /\ us[Len(us)].username = u

DuplicateUserNever(us, u) == FALSE

DuplicateUser(us, u) == FindUser(us, u) # 0

NewUserPlain(u, password, hashedPassword) ==
    [username |-> u, password |-> password]

\* line 121: { username, password: hashedPassword }
NewUser(u, password, hashedPassword) ==
    [username |-> u, password |-> hashedPassword]

MarkRaced(s, u) ==
    [k \in 1..Len(s) |->
        IF s[k].req.op = "register" /\ s[k].req.username = u
        THEN [s[k] EXCEPT !.raced = TRUE] ELSE s[k]]

\* lines 115-123: the hash settles and the handler runs to its end
RegisterFinish(i) ==
    /\ i \in 1..Len(pending)
    /\ pending[i].req.op = "register"
    /\ LET e == pending[i]
           r == e.req IN
       IF ~IsString(r.password)
       THEN /\ Thrown(e)
            /\ pending' = Remove(pending, i)
            /\ UNCHANGED <<users, acked>>
       ELSE \E salt \in Salts :
              LET hashedPassword == BcryptHash(r.password, salt) IN
              IF DuplicateUser(users, r.username)
              THEN /\ last' = Done(r, 400, "User already exists", e.known, e.raced)
                   /\ pending' = Remove(pending, i)
                   /\ UNCHANGED <<users, acked>>
              ELSE /\ users' = Append(users, NewUser(r.username, r.password,
                                                      hashedPassword))
                   /\ last' = Done(r, 201, "User registered", e.known, e.raced)
                   /\ pending' = MarkRaced(Remove(pending, i), r.username)
                   /\ acked' = acked \cup {<<r.username, r.password>>}
    /\ UNCHANGED <<tasks, taskId, nreq, assigned, deleted>>

\* ------------------------------------------------------------- POST /login
\* lines 145-150: lookup; without a user the handler answers at once,
\* otherwise it suspends in `await bcrypt.compare(password, user.password)`
LoginStart(u, p) ==
    /\ Accept
    /\ LET r == Req("login", u, p, NA, <<>>, NA)
           k == FindUser(users, u) IN
       IF k = 0
       THEN /\ last' = Sync(r, 400, "Invalid credentials")
            /\ UNCHANGED pending
       ELSE /\ Len(pending) < MaxPending
            /\ pending' = Append(pending, Suspended(r, users[k].password, <<u, p>> \in acked))
            /\ UNCHANGED last
    /\ UNCHANGED <<users, tasks, taskId, assigned, deleted, acked>>

\* lines 148-152: the comparison settles
LoginFinish(i) ==
    /\ i \in 1..Len(pending)
    /\ pending[i].req.op = "login"
    /\ pending' = Remove(pending, i)
    /\ LET e == pending[i]
           r == e.req IN
       IF ~IsString(r.password)
       THEN Thrown(e)
       ELSE IF ~BcryptCompare(r.password, e.hash)
       THEN last' = Done(r, 400, "Invalid credentials", e.known, FALSE)
       ELSE last' = Done(r, 200, "Logged in successfully", e.known, FALSE)
    /\ UNCHANGED <<users, tasks, taskId, nreq, assigned, deleted, acked>>

\* ------------------------------------------------------------- POST /task
NewTaskByLength(u, t) ==
    [id |-> Len(tasks) + 1, username |-> u, task |-> t, status |-> "backlog"]

NewTaskPreIncrement(u, t) ==
    [id |-> taskId + 1, username |-> u, task |-> t, status |-> "backlog"]

\* line 188: { id: taskId++, username, task, status: 'backlog' }
NewTask(u, t) == [id |-> taskId, username |-> u, task |-> t, status |-> "backlog"]

UserFoundAlways(us, u) == TRUE

\* line 184: users.find(user => user.username === username)
UserFound(us, u) == FindUser(us, u) # 0

CreateTask(u, t) ==
    /\ Accept
    /\ LET r == Req("create", u, NA, t, <<>>, NA) IN
       IF ~UserFound(users, u)
       THEN /\ last' = Sync(r, 400, "User not found")
            /\ UNCHANGED <<tasks, taskId, assigned>>
       ELSE /\ taskId <= MaxTasks
            /\ tasks' = Append(tasks, NewTask(u, t))
            /\ taskId' = taskId + 1
            /\ assigned' = Append(assigned, NewTask(u, t).id)
            /\ last' = Sync(r, 201, "Task added")
    /\ UNCHANGED <<users, pending, deleted, acked>>

\* ------------------------------------------------------------- PATCH /task/:id
IsValidStatusAny(status) == TRUE

\* line 232: ['backlog', 'inProgress', 'done', 'onAccess'].includes(status)
IsValidStatus(status) == status \in ValidStatuses

UpdateAnswerStatusFirst(k, status) ==
    IF ~IsValidStatus(status) THEN 400 ELSE IF k = 0 THEN 404 ELSE 200

\* lines 228-237: the order of the two checks; k is what tasks.find returned
UpdateAnswer(k, status) ==
    IF k = 0 THEN 404 ELSE IF ~IsValidStatus(status) THEN 400 ELSE 200

SetStatusBeforeValidation(ts, k, status, code) ==
    IF k # 0 THEN [ts EXCEPT ![k].status = status] ELSE ts

SetStatusOfFirst(ts, k, status, code) ==
    IF code = 200 THEN [ts EXCEPT ![1].status = status] ELSE ts

\* line 236: task.status = status, reached only past both returns
SetStatus(ts, k, status, code) ==
    IF code = 200 THEN [ts EXCEPT ![k].status = status] ELSE ts

UpdateTask(id, status) ==
    /\ Accept
    /\ LET r == Req("update", NA, NA, NA, id, status)
           k == FindTask(tasks, ParseInt(id))
           code == UpdateAnswer(k, status) IN
       /\ tasks' = SetStatus(tasks, k, status, code)
       /\ CASE code = 404 -> last' = Sync(r, 404, "Task not found")
            [] code = 400 -> last' = Sync(r, 400, "Invalid status")
            [] code = 200 -> k # 0 /\ last' = Sync(r, 200, "Task updated")
    /\ UNCHANGED <<users, taskId, pending, assigned, deleted, acked>>

\* ------------------------------------------------------------- DELETE /task/:id
WithoutIdUnparsed(ts, n) == ts

WithoutIdNotGreater(ts, n) == LET Keep(task) == task.id > n IN SelectSeq(ts, Keep)

\* line 262: tasks.filter(task => task.id !== parseInt(id))
WithoutId(ts, n) == LET Keep(task) == ~StrictEq(task.id, n) IN SelectSeq(ts, Keep)

DeleteTask(id) ==
    /\ Accept
    /\ LET r == Req("delete", NA, NA, NA, id, NA)
           initialLength == Len(tasks)
           kept == WithoutId(tasks, ParseInt(id)) IN
       /\ tasks' = kept
       /\ IF Len(kept) = initialLength
          THEN /\ last' = Sync(r, 404, "Task not found or already deleted")
               /\ UNCHANGED deleted
          ELSE /\ last' = Sync(r, 200, "Task deleted")
               /\ deleted' = deleted \cup {ParseInt(id)}
    /\ UNCHANGED <<users, taskId, pending, assigned, acked>>

\* ------------------------------------------------------------- GET /tasks
UserTasksAll(ts, u) == ts

\* line 303: tasks.filter(task => task.username === username)
UserTasks(ts, u) == LET Mine(task) == task.username = u IN SelectSeq(ts, Mine)

ListTasks(u) ==
    /\ Accept
    /\ LET r == Req("list", u, NA, NA, <<>>, NA) IN
       IF FindUser(users, u) = 0
       THEN last' = Sync(r, 400, "User not found")
       ELSE last' = Sync(r, 200, UserTasks(tasks, u))
    /\ UNCHANGED <<users, tasks, taskId, pending, assigned, deleted, acked>>

\* ------------------------------------------------------------- the server
Next ==
    \/ \E u \in Usernames, p \in Passwords : RegisterStart(u, p)
    \/ \E i \in 1..MaxPending : RegisterFinish(i)
    \/ \E u \in Usernames, p \in Passwords : LoginStart(u, p)
    \/ \E i \in 1..MaxPending : LoginFinish(i)
    \/ \E u \in Usernames, t \in Texts : CreateTask(u, t)
    \/ \E id \in PathIds, st \in StatusInputs : UpdateTask(id, st)
    \/ \E id \in PathIds : DeleteTask(id)
    \/ \E u \in Usernames : ListTasks(u)

Spec == Init /\ [][Next]_vars

\* ------------------------------------------------------------- properties
Count(us, u) == Cardinality({k \in 1..Len(us) : us[k].username = u})

Is(op) == last.req.op = op

\* C1: in every reachable state, whatever register requests are in flight
\* around their hashing await, no two entries of users have the same username.
C1_UniqueUsernames ==
    \A i, j \in 1..Len(users) : users[i].username = users[j].username => i = j

\* a register answered 400 for a username that a register which was in flight
\* together with it had registered
C1_Witness ==
    /\ Is("register") /\ last.raced /\ last.resp = 400
    /\ Count(users, last.req.username) = 1

LastId == ParseInt(last.req.id)

HeldIn(ts, n) == \E k \in 1..Len(ts) : ts[k].id = n

\* C3: the ids given to created tasks are 1, 2, 3, ... in creation order, so
\* each is greater than every id given before and none is given twice, also
\* after a deletion; taskId never decreases and exceeds every held id.
C3_SequentialIds ==
    /\ \A i \in 1..Len(assigned) : assigned[i] = i
    /\ \A k \in 1..Len(tasks) : tasks[k].id < taskId
    /\ \A n \in deleted : n < taskId
    /\ last.pre.taskId <= taskId
    /\ (Is("create") /\ last.resp = 201) =>
           /\ tasks[Len(tasks)].id = assigned[Len(assigned)]
           /\ \A k \in 1..Len(last.pre.tasks) :
                  last.pre.tasks[k].id < tasks[Len(tasks)].id
           /\ \A n \in last.gone : n < tasks[Len(tasks)].id

\* a task was created after the task with id 1 had been deleted, and got id 2
C3_Witness ==
    /\ Is("create") /\ last.resp = 201
    /\ 1 \in deleted
    /\ Len(tasks) = 1 /\ tasks[1].id = 2

\* C4: every held task has one of the four statuses, whatever status values
\* PATCH bodies carried.
C4_StatusEnumerated ==
    \A k \in 1..Len(tasks) :
        tasks[k].status \in {"backlog", "inProgress", "done", "onAccess"}

\* a PATCH of a held task carried a status outside the four and a task has
\* moved off backlog
C4_Witness ==
    /\ Is("update") /\ last.resp = 400 /\ last.req.status = "archived"
    /\ \E k \in 1..Len(tasks) : tasks[k].id = LastId /\ tasks[k].status = "done"

\* C5: PATCH checks existence before validity: 404 for an id no task holds,
\* whatever the status; 400 and the status unchanged for a held id with a
\* status outside the four; 200 and the status set only for a held id with a
\* valid status.
C5_ExistenceBeforeValidity ==
    Is("update") =>
        LET was == HeldIn(last.pre.tasks, LastId)
            ok == last.req.status \in {"backlog", "inProgress", "done", "onAccess"} IN
        /\ ~was => (last.resp = 404 /\ tasks = last.pre.tasks)
        /\ (was /\ ~ok) => (last.resp = 400 /\ tasks = last.pre.tasks)
        /\ (was /\ ok) =>
              /\ last.resp = 200
              /\ \E k \in 1..Len(tasks) :
                    tasks[k].id = LastId /\ tasks[k].status = last.req.status
        /\ last.resp = 200 => (was /\ ok)

\* an invalid status sent to an id that no task holds, while another is held
C5_Witness ==
    /\ Is("update") /\ last.resp = 404
    /\ last.req.status = "archived"
    /\ tasks # <<>>

\* C6: DELETE of a held id answers 200 and the task is gone from tasks, hence
\* from every listing; the id stays below the counter, so it is never given
\* again, and every later DELETE or PATCH of it answers 404.
C6_DeletedStaysDeleted ==
    /\ (Is("delete") /\ HeldIn(last.pre.tasks, LastId)) =>
           (last.resp = 200 /\ LastId \in deleted)
    /\ \A n \in deleted : ~HeldIn(tasks, n) /\ n < taskId
    /\ (Is("list") /\ last.resp = 200) =>
           \A k \in 1..Len(last.body) : last.body[k].id \notin last.gone
    /\ ((Is("delete") \/ Is("update")) /\ LastId \in last.gone) => last.resp = 404

\* the second DELETE of an id
C6_Witness ==
    /\ Is("delete") /\ last.resp = 404
    /\ LastId \in last.gone

\* C7: GET /tasks answers 400 for an unregistered username; for a registered
\* one 200 with exactly the held tasks of that username, each once, in
\* creation order; that is the empty array when the user has none.
C7_ListExactlyOwn ==
    Is("list") =>
        LET u == last.req.username
            b == last.body
            registered == \E k \in 1..Len(users) : users[k].username = u IN
        /\ ~registered => last.resp = 400
        /\ registered =>
              /\ last.resp = 200
              /\ \A k \in 1..Len(b) : b[k].username = u /\ HeldIn(tasks, b[k].id)
              /\ \A k \in 1..Len(tasks) :
                    tasks[k].username = u =>
                        Cardinality({j \in 1..Len(b) : b[j] = tasks[k]}) = 1
              /\ \A j, k \in 1..Len(b) : j < k => b[j].id < b[k].id
              /\ (\A k \in 1..Len(tasks) : tasks[k].username # u) => b = <<>>

\* a listing of a registered user without tasks that leaves out the task of
\* another user
C7_Witness ==
    /\ Is("list") /\ last.resp = 200 /\ last.body = <<>> /\ tasks # <<>>

\* a listing of two tasks
C7_WitnessOrder ==
    /\ Is("list") /\ last.resp = 200 /\ Len(last.body) = 2

\* bcrypt.compare answers true: it rejects a password that is no string
Matches(p, h) == IsString(p) /\ BcryptCompare(p, h)

\* the user a login for u is checked against, in the users its handler saw
Credible(us, u, p) ==
    \E k \in 1..Len(us) : us[k].username = u /\ Matches(p, us[k].password)

\* C8 as stated: login answers 200 exactly when the username is registered and
\* the password matches the stored hash, and 400 otherwise; a login with
\* credentials for which a register had answered 201 answers 200.
C8_LoginDecides ==
    Is("login") =>
        LET ok == Credible(last.pre.users, last.req.username, last.req.password) IN
        /\ last.resp = 200 <=> ok
        /\ ~ok => last.resp = 400
        /\ last.known => last.resp = 200

\* C8 for bodies that carry a password: what of it the handler does keep
C8_WithPassword == IsString(last.req.password) => C8_LoginDecides

\* C9 as stated: a login that fails answers 400 'Invalid credentials' and
\* leaves the store as it was, whether the username is unknown or the password
\* does not match.
C9_FailedLoginUniform ==
    (Is("login") /\ last.resp # 200) =>
        /\ last.resp = 400
        /\ last.body = "Invalid credentials"
        /\ Store = last.pre

\* C9 for bodies that carry a password
C9_WithPassword == IsString(last.req.password) => C9_FailedLoginUniform

\* C10 as stated: a register for a username that is registered answers 400 and
\* leaves users unchanged; one for a username that is not answers 201 and
\* appends exactly one entry, for that username.
C10_RegisterOutcome ==
    Is("register") =>
        LET u == last.req.username
            dup == \E k \in 1..Len(last.pre.users) : last.pre.users[k].username = u IN
        /\ dup => (last.resp = 400 /\ users = last.pre.users)
        /\ ~dup =>
              /\ last.resp = 201
              /\ Len(users) = Len(last.pre.users) + 1
              /\ SubSeq(users, 1, Len(last.pre.users)) = last.pre.users
              /\ users[Len(users)].username = u

\* C10 for bodies that carry a password
C10_WithPassword == IsString(last.req.password) => C10_RegisterOutcome

RegisteredIn(us, u) == \E k \in 1..Len(us) : us[k].username = u

\* C11: POST /task for a registered username answers 201, appends exactly one
\* task at the end of tasks, with the counter's previous value as id, the given
\* username and text and status backlog, and adds 1 to the counter; the first
\* task ever created has id 1.
C11_CreateAppends ==
    (Is("create") /\ RegisteredIn(last.pre.users, last.req.username)) =>
        /\ last.resp = 201
        /\ Len(tasks) = Len(last.pre.tasks) + 1
        /\ SubSeq(tasks, 1, Len(last.pre.tasks)) = last.pre.tasks
        /\ tasks[Len(tasks)] = [id |-> last.pre.taskId,
                                username |-> last.req.username,
                                task |-> last.req.task,
                                status |-> "backlog"]
        /\ taskId = last.pre.taskId + 1
        /\ Len(assigned) = 1 => tasks[Len(tasks)].id = 1

\* a second task was appended behind the first
C11_Witness ==
    /\ Is("create") /\ last.resp = 201
    /\ Len(tasks) = 2 /\ tasks[2].id = 2 /\ tasks[2].task = "walk dog"

\* the failure responses the handlers send
Failed ==
    \/ Is("register") /\ last.resp = 400
    \/ Is("login") /\ last.resp = 400
    \/ Is("create") /\ last.resp = 400
    \/ Is("update") /\ last.resp \in {404, 400}
    \/ Is("delete") /\ last.resp = 404
    \/ Is("list") /\ last.resp = 400

\* C12: a request that ends in a failure response leaves users, tasks and the
\* counter as they were; a create for an unregistered username neither grows
\* tasks nor consumes an id.
C12_FailureLeavesStore ==
    Failed =>
        /\ users = last.pre.users
        /\ tasks = last.pre.tasks
        /\ taskId = last.pre.taskId

\* an invalid status was refused for a task that had left backlog
C12_Witness ==
    /\ Is("update") /\ last.resp = 400
    /\ \E k \in 1..Len(tasks) : tasks[k].id = LastId /\ tasks[k].status # "backlog"

\* a create for an unregistered username was refused while a task was held
C12_WitnessCreate ==
    /\ Is("create") /\ last.resp = 400 /\ tasks # <<>>

\* C13 as stated: every request gets a response, whatever its body holds: no
\* handler ends without one having been sent.
C13_EveryRequestAnswered ==
    ~Is("none") => last.resp # NoResponse

\* C13 for bodies that carry a password
C13_WithPassword == IsString(last.req.password) => C13_EveryRequestAnswered

\* the task of tasks that has the id of pre.tasks[k], if it is still held
Same(k) == {j \in 1..Len(tasks) : tasks[j].id = last.pre.tasks[k].id}

Patched(k) == Is("update") /\ last.resp = 200 /\ last.pre.tasks[k].id = LastId

\* C14: a task's username and text never change; its status changes only by a
\* successful PATCH addressed to its id, which changes the status of that one
\* task and leaves every other task, users and the counter unchanged.
C14_OnlyPatchChangesStatus ==
    /\ \A k \in 1..Len(last.pre.tasks) : \A j \in Same(k) :
          /\ tasks[j].username = last.pre.tasks[k].username
          /\ tasks[j].task = last.pre.tasks[k].task
          /\ ~Patched(k) => tasks[j].status = last.pre.tasks[k].status
    /\ (Is("update") /\ last.resp = 200) =>
          /\ users = last.pre.users
          /\ taskId = last.pre.taskId
          /\ Len(tasks) = Len(last.pre.tasks)
          /\ \A k \in 1..Len(tasks) :
                /\ tasks[k].id = last.pre.tasks[k].id
                /\ tasks[k].id = LastId => tasks[k].status = last.req.status

\* the second of two tasks was patched and the first kept its status
C14_Witness ==
    /\ Is("update") /\ last.resp = 200 /\ Len(tasks) = 2
    /\ tasks[2].id = LastId /\ tasks[2].status = "done"
    /\ tasks[1].status = "backlog"

\* C15: the password field of every user is the salted hash of the password
\* given at registration, never the password itself.
C15_OnlyHashStored ==
    \A k \in 1..Len(users) :
        /\ users[k].password \in Hashes
        /\ users[k].password \notin Plain
        /\ \E p \in Plain :
              /\ <<users[k].username, p>> \in acked
              /\ users[k].password # p
              /\ \E salt \in Salts : users[k].password = BcryptHash(p, salt)

C15_Witness ==
    /\ Is("register") /\ last.resp = 201
    /\ \E k \in 1..Len(users) :
          users[k].username = last.req.username /\ users[k].password # last.req.password

\* C16: PATCH and DELETE with a path id that parseInt turns into NaN answer 404
\* and leave tasks unchanged, whatever tasks are held.
C16_UnparsableIdNotFound ==
    ((Is("update") \/ Is("delete")) /\ last.req.id[1] \notin Digits) =>
        (last.resp = 404 /\ tasks = last.pre.tasks)

\* DELETE /task/x while a task is held
C16_Witness ==
    /\ Is("delete") /\ last.req.id = <<"x">> /\ last.resp = 404 /\ tasks # <<>>

\* C17: the username of every held task is the username of some user: tasks
\* are created only for registered usernames and users are never removed.
C17_TaskOwnerRegistered ==
    /\ \A k \in 1..Len(tasks) : RegisteredIn(users, tasks[k].username)
    /\ \A k \in 1..Len(last.pre.users) :
          k <= Len(users) /\ users[k] = last.pre.users[k]

\* a task is held for the second of two users
C17_Witness ==
    /\ Len(users) = 2
    /\ \E k \in 1..Len(tasks) : tasks[k].username = users[2].username

Rival ==
    \E k \in 1..Len(pending) :
        pending[k].req.op = "register" /\ pending[k].req.username = last.req.username

\* C19 as stated: of the registers for one unregistered username that are in
\* flight together, the first whose hashing settles answers 201 and stores the
\* hash of its password, and every other one answers 400.
C19_FirstHashWins ==
    Is("register") =>
        /\ last.raced => last.resp = 400
        /\ (Rival /\ ~RegisteredIn(last.pre.users, last.req.username)) =>
              /\ last.resp = 201
              /\ \E k \in 1..Len(users) :
                    /\ users[k].username = last.req.username
                    /\ Matches(last.req.password, users[k].password)
        /\ last.resp = 201 => ~RegisteredIn(last.pre.users, last.req.username)

\* C19 for bodies that carry a password
C19_WithPassword == IsString(last.req.password) => C19_FirstHashWins

\* the register that arrived second answered 201 while the one that arrived
\* first was still hashing
C19_LaterArrivalWins ==
    /\ Is("register") /\ last.resp = 201
    /\ \E k \in 1..Len(pending) :
          /\ pending[k].raced
          /\ pending[k].req.password # last.req.password

====
